---- MODULE Spec2Model ----
(***************************************************************************)
(* Model of the ComfyUI-LM-Remote front-end shims: the per-node text/list  *)
(* synchronisation (Lora Loader, Lora Stacker, WanVideo Lora Select remote *)
(* nodes) and the lora_code_update event handler.                          *)
(*                                                                         *)
(* The host is single threaded: a top-level callback (user edit, timer,    *)
(* event) is dispatched only when no handler is running.  A handler that   *)
(* writes a widget value is split at the write, because the host may call  *)
(* the written widget's change callback synchronously from the write; the  *)
(* call stack of running handlers is the variable `stack`.                 *)
(***************************************************************************)
EXTENDS Integers, Sequences, FiniteSets, TLC

VARIABLES node, stack, act, obs, ops, links, gw

vars == <<node, stack, act, obs, ops, links, gw>>

\* ------------------------------------------------------------------ bounds
\* Number of top-level callbacks the host dispatches in one run.
MaxOps == 3

\* ------------------------------------------------------------------- data
NodeIds == {1, 2, 3}

LoaderClass == "Lora Loader (Remote, LoraManager)"
StackerClass == "Lora Stacker (Remote, LoraManager)"
WanClass == "WanVideo Lora Select (Remote, LoraManager)"

Names == {"x", "y"}
Strengths == {8, 10}

\* A text is a sequence of items: a blank, a word of free text, a malformed
\* token (plain text that mentions a name) or a well-formed lora token.
SP == [t |-> "sp", name |-> " ", strength |-> 0]
Word(w) == [t |-> "w", name |-> w, strength |-> 0]
Bad(n) == [t |-> "bad", name |-> n, strength |-> 0]
Tok(n, s) == [t |-> "lora", name |-> n, strength |-> s]

Entry(n, s, a) == [name |-> n, strength |-> s, active |-> a]

IsTok(it) == it.t = "lora"

NamesOf(list) == {list[i].name : i \in 1..Len(list)}

\* --------------------------------------------------------- LoraEntryCodec
\* decode: every well-formed token, left to right; a repeated name keeps the
\* position of its first occurrence and the strength of its last.
RECURSIVE DecodeFrom(_, _)
DecodeFrom(text, acc) ==
  IF text = <<>> THEN acc
  ELSE LET it == Head(text) IN
       IF ~IsTok(it) THEN DecodeFrom(Tail(text), acc)
       ELSE IF it.name \in NamesOf(acc)
            THEN DecodeFrom(Tail(text),
                   [i \in 1..Len(acc) |->
                      IF acc[i].name = it.name
                      THEN [acc[i] EXCEPT !.strength = it.strength]
                      ELSE acc[i]])
            ELSE DecodeFrom(Tail(text),
                   Append(acc, [name |-> it.name, strength |-> it.strength]))

Decode(text) == DecodeFrom(text, <<>>)

StrengthIn(list, n) ==
  LET i == CHOOSE j \in 1..Len(list) : list[j].name = n IN list[i].strength

\* merge(incoming, current): union by name; an entry in both keeps its
\* active flag and takes the incoming strength; an entry only in incoming is
\* appended with active = true; an entry only in current is kept.
RECURSIVE NewEntries(_, _)
NewEntries(incoming, have) ==
  IF incoming = <<>> THEN <<>>
  ELSE (IF Head(incoming).name \in have THEN <<>>
        ELSE <<Entry(Head(incoming).name, Head(incoming).strength, TRUE)>>)
       \o NewEntries(Tail(incoming), have)

Merge(incoming, current) ==
  [i \in 1..Len(current) |->
     IF current[i].name \in NamesOf(incoming)
     THEN [current[i] EXCEPT !.strength = StrengthIn(incoming, current[i].name)]
     ELSE current[i]]
  \o NewEntries(incoming, NamesOf(current))

mergeLoras(text, current) == Merge(Decode(text), current)

\* encode: tokens of an entry are rewritten with the entry's strength, tokens
\* of no entry are deleted, entries without a token are appended; every other
\* item stays where it is.
RECURSIVE RewriteTokens(_, _)
RewriteTokens(text, entries) ==
  IF text = <<>> THEN <<>>
  ELSE LET it == Head(text) IN
       (IF ~IsTok(it) THEN <<it>>
        ELSE IF it.name \in NamesOf(entries)
             THEN <<Tok(it.name, StrengthIn(entries, it.name))>>
             ELSE <<>>)
       \o RewriteTokens(Tail(text), entries)

RECURSIVE AppendTokens(_, _, _)
AppendTokens(text, entries, have) ==
  IF entries = <<>> THEN text
  ELSE LET e == Head(entries) IN
       IF e.name \in have THEN AppendTokens(text, Tail(entries), have)
       ELSE AppendTokens(
              (IF text = <<>> THEN <<>> ELSE text \o <<SP>>)
                \o <<Tok(e.name, e.strength)>>,
              Tail(entries), have)

\* Mutant: the text is generated anew from the entries.
applyLoraValuesFromEntries(text, entries) == AppendTokens(<<>>, entries, {})

applyLoraValuesToText(text, entries) ==
  LET kept == RewriteTokens(text, entries)
  IN AppendTokens(kept, entries, NamesOf(Decode(text)))

\* The tokens of a text denote the entries of a list: same names, same
\* strengths.
Denotes(text, list) ==
  LET d == Decode(text) IN
  /\ NamesOf(d) = NamesOf(list)
  /\ \A n \in NamesOf(d) : StrengthIn(d, n) = StrengthIn(list, n)

\* ---------------------------------------------------- GraphChainCollector
\* All of these read a graph snapshot: nd gives every node's record and lk
\* the node linked to each node's stack input (0: not connected).
AcceptsStack(nd, n) == nd[n].kind \in {LoaderClass, StackerClass}

\* mode 0 is "always", 3 is "on trigger"; 2 ("never") and 4 ("bypass")
\* disable the node.
IsNodeActive(nd, n) == nd[n].mode = 0 \/ nd[n].mode = 3

ActiveNames(list) == {list[i].name : i \in {j \in 1..Len(list) : list[j].active}}

getActiveLorasFromNode(nd, n) == ActiveNames(nd[n].loras)

\* Depth-first walk up the stack links, each node visited at most once.
RECURSIVE Walk(_, _, _, _, _)
Walk(nd, lk, n, visited, acc) ==
  IF n = 0 \/ n \in visited THEN acc
  ELSE Walk(nd, lk,
            IF AcceptsStack(nd, n) THEN lk[n] ELSE 0,
            visited \cup {n},
            acc \cup (IF IsNodeActive(nd, n)
                      THEN getActiveLorasFromNode(nd, n) ELSE {}))

collectActiveLorasFromChain(nd, lk, n) == Walk(nd, lk, n, {}, {})

\* -------------------------------------------------- RemoteMetadataGateway
\* The gateway is the Python side of the extension: a client with a
\* time-bounded cache and the reverse proxy's ordered route table.
\* Number of times the clock advances in one run.
MaxTicks == 4

\* "A 60-second in-memory cache".
TtlSeconds == 60

Ttls == {1, TtlSeconds}

\* How far the clock advances at once, in seconds.
TickSteps == {1, TtlSeconds - 1}

\* A cache key is an endpoint with the request's parameters.
CacheKeys ==
  { <<"/api/lm/loras/list", "">>, <<"/api/lm/loras/list", "pool">> }

\* What a remote call gives: one of the service's answers, or a failure.
RemoteValues == {"v1", "v2"}

Failed == "failed"

NoEntry == [set |-> FALSE, value |-> "", expiresAt |-> 0]

CacheEntry(v, t) == [set |-> TRUE, value |-> v, expiresAt |-> t]

\* What the last gateway operation was and did: a fetch's key, ttl, number of
\* remote calls, returned value and the entry it found (had); a routed
\* request's path, the index of the rule it got (0: none) and its outcome.
NoCall ==
  [op |-> "none", key |-> <<>>, ttl |-> 0, calls |-> 0, ret |-> "",
   had |-> NoEntry, path |-> <<>>, rule |-> 0, outcome |-> ""]

NewGateway ==
  [cache |-> [k \in CacheKeys |-> NoEntry], now |-> 0, ticks |-> 0,
   last |-> NoCall]

\* Mutant: an entry is still served at the second it expires.
fetchCachedInclusive(key, ttlSeconds, remote, G) ==
  LET e == G.cache[key] IN
  IF e.set /\ G.now <= e.expiresAt
  THEN [G EXCEPT !.last = [NoCall EXCEPT !.op = "fetch", !.key = key,
                             !.ttl = ttlSeconds, !.ret = e.value, !.had = e]]
  ELSE [G EXCEPT !.cache[key] =
                    IF remote = Failed THEN @
                    ELSE CacheEntry(remote, G.now + ttlSeconds),
                 !.last = [NoCall EXCEPT !.op = "fetch", !.key = key,
                             !.ttl = ttlSeconds, !.calls = 1, !.ret = remote,
                             !.had = e]]

\* fetchCached(endpoint, params, ttlSeconds) when the remote call, if one is
\* made, gives `remote`: an entry that exists and has not expired is
\* returned; otherwise the remote call is made and its result is stored with
\* expiresAt = now + ttlSeconds.  A failed call stores nothing and is handed
\* to the caller (serving a stale entry is off by default).
fetchCached(key, ttlSeconds, remote, G) ==
  LET e == G.cache[key] IN
  IF e.set /\ G.now < e.expiresAt
  THEN [G EXCEPT !.last = [NoCall EXCEPT !.op = "fetch", !.key = key,
                             !.ttl = ttlSeconds, !.ret = e.value, !.had = e]]
  ELSE [G EXCEPT !.cache[key] =
                    IF remote = Failed THEN @
                    ELSE CacheEntry(remote, G.now + ttlSeconds),
                 !.last = [NoCall EXCEPT !.op = "fetch", !.key = key,
                             !.ttl = ttlSeconds, !.calls = 1, !.ret = remote,
                             !.had = e]]

\* A path is its sequence of segments.  A rule's pattern is an exact path or,
\* written with a trailing star, everything below a prefix.
Exact(segs, d) == [segs |-> segs, prefix |-> FALSE, disposition |-> d]

Prefix(segs, d) == [segs |-> segs, prefix |-> TRUE, disposition |-> d]

\* The ordered route table: the routes handled locally stand before the
\* prefix that forwards every other REST endpoint.
RouteTable ==
  << Exact(<<"api", "lm", "loras", "get_trigger_words">>, "localHandle"),
     Exact(<<"api", "lm", "update-lora-code">>, "localHandle"),
     Prefix(<<"api", "lm">>, "forward"),
     Prefix(<<"loras_static">>, "forward"),
     Exact(<<"loras">>, "forward"),
     Exact(<<"loras", "recipes">>, "forward") >>

Matches(rule, path) ==
  IF rule.prefix
  THEN /\ Len(path) > Len(rule.segs)
       /\ SubSeq(path, 1, Len(rule.segs)) = rule.segs
  ELSE path = rule.segs

RECURSIVE LastMatch(_, _, _)
LastMatch(table, path, i) ==
  IF i = 0 THEN 0
  ELSE IF Matches(table[i], path) THEN i
       ELSE LastMatch(table, path, i - 1)

\* Mutant: the table is scanned from its end, so the last match wins.
routeRequestLastMatch(path) == LastMatch(RouteTable, path, Len(RouteTable))

\* Linear scan of the table from its head.
RECURSIVE FirstMatch(_, _, _)
FirstMatch(table, path, i) ==
  IF i > Len(table) THEN 0
  ELSE IF Matches(table[i], path) THEN i
       ELSE FirstMatch(table, path, i + 1)

\* routeRequest(path): the index of the first rule that matches; 0 when no
\* rule does (RouteNotFound).
routeRequest(path) == FirstMatch(RouteTable, path, 1)

Disposition(rule) ==
  IF rule = 0 THEN "notFound" ELSE RouteTable[rule].disposition

\* ------------------------------------------------------------ state shape
\* No event: the message slot of an observation outside an event dispatch.
NoMsg == [node_id |-> [s |-> FALSE, v |-> 0], lora_code |-> <<>>, mode |-> "none"]

\* A running handler that stands at a widget write: whether the host has
\* already called the written widget's callback (notified), and for the event
\* handler its arguments, the nodes still to update (todo) and whether it has
\* made its own callback call (called).
EventFrame(n, todo, code, mode) ==
  [h |-> "event", n |-> n, notified |-> FALSE, called |-> FALSE,
   todo |-> todo, code |-> code, mode |-> mode]

Frame(h, n) ==
  [h |-> h, n |-> n, notified |-> FALSE, called |-> FALSE,
   todo |-> <<>>, code |-> <<>>, mode |-> ""]

\* What the running top-level dispatch has done so far: calls of
\* updateConnectedTriggerWords (tw) and updateDownstreamLoaders (ds), the
\* names last handed to the former (active), text writes made by the
\* debounced function (writes), callback calls a guard returned from
\* (dropped), pending timers cleared by a new call (replaced), and the event
\* being handled (msg), and the value last assigned to a node's mode
\* (assigned; -1: none).
NoObs ==
  [tw |-> 0, ds |-> 0, writes |-> 0, dropped |-> 0, replaced |-> 0,
   active |-> {}, msg |-> NoMsg, assigned |-> -1]

Idle == stack = <<>>

\* A handler's effect on the program state S = [node, stack, obs].
Here == [node |-> node, stack |-> stack, obs |-> obs]

\* updateConnectedTriggerWords(node, names) and, on a stacker,
\* updateDownstreamLoaders(node): collaborators, observed by their calls.
Notify(n, names, S) ==
  [S EXCEPT !.obs.tw = @ + 1,
            !.obs.ds = @ + (IF S.node[n].kind = StackerClass THEN 1 ELSE 0),
            !.obs.active = names]

\* Mutant: a loader reports the active names of its own list only.
ReportedActiveOwnOnly(n, list, S) ==
  CASE S.node[n].kind = StackerClass ->
         IF IsNodeActive(S.node, n) THEN ActiveNames(list) ELSE {}
    [] OTHER -> ActiveNames(list)

\* The active-name set each node kind hands to the trigger-word collaborator.
ReportedActive(n, list, S) ==
  CASE S.node[n].kind = LoaderClass ->
         collectActiveLorasFromChain(S.node, links, n)
    [] S.node[n].kind = StackerClass ->
         IF IsNodeActive(S.node, n) THEN ActiveNames(list) ELSE {}
    [] OTHER -> ActiveNames(list)

\* Mutant: a plain timer per call, the pending one is not cleared.
debounceNoCancel(timers, arg) == Append(timers, arg)

\* debounce(fn): the timers of one debounced function that have not fired
\* yet, each with the argument of its call; a call clears the pending timer
\* and starts a new one.
debounce(timers, arg) == <<arg>>

\* Mutant: one debounced function shared by all nodes, so a call on one node
\* clears the timer another node is waiting for.
scheduleInputSyncShared(n, lorasValue, S) ==
  [S EXCEPT !.node = [m \in NodeIds |->
                        [S.node[m] EXCEPT !.pending =
                           IF m = n THEN debounce(@, lorasValue) ELSE <<>>]],
            !.obs.replaced = @ + Len(S.node[n].pending)]

\* Each node has a debounced function of its own, made in onNodeCreated.
scheduleInputSync(n, lorasValue, S) ==
  [S EXCEPT !.node[n].pending = debounce(@, lorasValue),
            !.obs.replaced = @ + Len(S.node[n].pending)]

\* Mutant: the loras callback without its isUpdating guard.
LorasCallbackUnguarded(n, value, S) ==
  scheduleInputSync(n, value, Notify(n, ReportedActive(n, value, S), S))

\* Mutant: the loras callback guarded by the rewrite's flag.
LorasCallbackGuardedBySync(n, value, S) ==
  IF S.node[n].isSyncingInput THEN [S EXCEPT !.obs.dropped = @ + 1]
  ELSE scheduleInputSync(n, value, Notify(n, ReportedActive(n, value, S), S))

\* The loras widget's change callback.
LorasCallback(n, value, S) ==
  IF S.node[n].isUpdating THEN [S EXCEPT !.obs.dropped = @ + 1]
  ELSE scheduleInputSync(n, value, Notify(n, ReportedActive(n, value, S), S))

\* Mutant: the text callback replaces the list by the decoded text.
InputCallbackReplacesList(n, value, S) ==
  IF S.node[n].isUpdating THEN [S EXCEPT !.obs.dropped = @ + 1]
  ELSE [S EXCEPT !.node[n].isUpdating = TRUE,
                 !.node[n].loras = mergeLoras(value, <<>>),
                 !.stack = <<Frame("input", n)>> \o @]

\* Mutant: the text callback appends every decoded entry to the list.
InputCallbackAppendsDecoded(n, value, S) ==
  IF S.node[n].isUpdating THEN [S EXCEPT !.obs.dropped = @ + 1]
  ELSE [S EXCEPT !.node[n].isUpdating = TRUE,
                 !.node[n].loras = @ \o NewEntries(Decode(value), {}),
                 !.stack = <<Frame("input", n)>> \o @]

\* Mutant: the text callback without its isUpdating guard.
InputCallbackUnguarded(n, value, S) ==
  [S EXCEPT !.node[n].isUpdating = TRUE,
            !.node[n].loras = mergeLoras(value, S.node[n].loras),
            !.stack = <<Frame("input", n)>> \o @]

\* The text widget's change callback, up to its write of the loras widget.
InputCallback(n, value, S) ==
  IF S.node[n].isUpdating THEN [S EXCEPT !.obs.dropped = @ + 1]
  ELSE [S EXCEPT !.node[n].isUpdating = TRUE,
                 !.node[n].loras = mergeLoras(value, S.node[n].loras),
                 !.stack = <<Frame("input", n)>> \o @]

\* Mutant: the debounced function sets isSyncingInput only.
SyncInputLeavesUpdatingClear(n, lorasValue, S) ==
  IF S.node[n].isSyncingInput THEN S
  ELSE LET nextText == applyLoraValuesToText(S.node[n].text, lorasValue) IN
       IF S.node[n].text # nextText
       THEN [S EXCEPT !.node[n].isSyncingInput = TRUE,
                      !.node[n].text = nextText,
                      !.obs.writes = @ + 1,
                      !.stack = <<Frame("sync", n)>> \o @]
       ELSE S

\* Mutant: the debounced function assigns the text whatever it is.
SyncInputAlwaysWrites(n, lorasValue, S) ==
  IF S.node[n].isSyncingInput THEN S
  ELSE [S EXCEPT !.node[n].isSyncingInput = TRUE,
                 !.node[n].isUpdating = TRUE,
                 !.node[n].text = applyLoraValuesToText(@, lorasValue),
                 !.obs.writes = @ + 1,
                 !.stack = <<Frame("sync", n)>> \o @]

\* The debounced function, up to its write of the text widget.
SyncInput(n, lorasValue, S) ==
  IF S.node[n].isSyncingInput THEN S
  ELSE LET nextText == applyLoraValuesToText(S.node[n].text, lorasValue) IN
       IF S.node[n].text # nextText
       THEN [S EXCEPT !.node[n].isSyncingInput = TRUE,
                      !.node[n].isUpdating = TRUE,
                      !.node[n].text = nextText,
                      !.obs.writes = @ + 1,
                      !.stack = <<Frame("sync", n)>> \o @]
       ELSE [S EXCEPT !.node[n].isUpdating = FALSE,
                      !.node[n].isSyncingInput = FALSE]

\* Mutant: the setter tells onModeChange only of a mode that differs.
setModeOnlyOnChange(n, value, S) ==
  LET T == [S EXCEPT !.node[n].mode = value, !.obs.assigned = value] IN
  IF S.node[n].kind = LoaderClass /\ S.node[n].mode # value
  THEN Notify(n, collectActiveLorasFromChain(T.node, links, n), T)
  ELSE T

\* node.mode = value.  On a loader the setter stores the value and calls
\* onModeChange, which collects the chain's active names and hands them to
\* updateConnectedTriggerWords; on the other kinds mode is a plain property.
setMode(n, value, S) ==
  LET T == [S EXCEPT !.node[n].mode = value, !.obs.assigned = value] IN
  IF S.node[n].kind = LoaderClass
  THEN Notify(n, collectActiveLorasFromChain(T.node, links, n), T)
  ELSE T

Commit(S) ==
  /\ node' = S.node
  /\ stack' = S.stack
  /\ obs' = S.obs

\* The rest of the text callback, after the write of the loras widget: the
\* collaborators are told, and the finally block clears the guard.
InputFinish(n, S) ==
  LET T == Notify(n, ReportedActive(n, S.node[n].loras, S), S) IN
  [T EXCEPT !.node[n].isUpdating = FALSE, !.stack = Tail(@)]

\* Mutant: the debounced function's finally block clears isSyncingInput only.
SyncFinishKeepsUpdating(n, S) ==
  [S EXCEPT !.node[n].isSyncingInput = FALSE, !.stack = Tail(@)]

\* The finally block of the debounced function.
SyncFinish(n, S) ==
  [S EXCEPT !.node[n].isUpdating = FALSE,
            !.node[n].isSyncingInput = FALSE,
            !.stack = Tail(@)]

\* ------------------------------------------------------ lora_code_update
\* String.prototype.trim on a text: blanks at both ends go.
RECURSIVE TrimLeft(_)
TrimLeft(text) ==
  IF text # <<>> /\ Head(text) = SP THEN TrimLeft(Tail(text)) ELSE text

RECURSIVE TrimRight(_)
TrimRight(text) ==
  IF text # <<>> /\ text[Len(text)] = SP
  THEN TrimRight(SubSeq(text, 1, Len(text) - 1)) ELSE text

Trim(text) == TrimRight(TrimLeft(text))

\* message.mode ?? "append"
ModeOf(msg) == IF msg.mode = "none" THEN "append" ELSE msg.mode

\* typeof nodeId === "string" ? Number(nodeId) : nodeId
NumericNodeId(msg) == msg.node_id.v

\* Mutant: append without trimming the current text.
NewTextUntrimmed(current, loraCode, mode) ==
  IF mode = "replace" THEN loraCode
  ELSE IF current # <<>> THEN current \o <<SP>> \o loraCode
       ELSE loraCode

NewText(current, loraCode, mode) ==
  IF mode = "replace" THEN loraCode
  ELSE IF Trim(current) # <<>> THEN Trim(current) \o <<SP>> \o loraCode
       ELSE loraCode

\* Mutant: updateNodeLoraCode without its look at node.inputWidget.
updateNodeLoraCodeNoWidgetCheck(n, todo, loraCode, mode, S) ==
  [S EXCEPT !.node[n].text = NewText(S.node[n].text, loraCode, mode),
            !.stack = <<EventFrame(n, todo, loraCode, mode)>> \o @]

\* updateNodeLoraCode up to its write of the text widget.  On a node without
\* inputWidget it returns at once, and a broadcast goes on to its next node.
RECURSIVE updateNodeLoraCode(_, _, _, _, _)
updateNodeLoraCode(n, todo, loraCode, mode, S) ==
  IF ~S.node[n].hasInput
  THEN IF todo = <<>> THEN S
       ELSE updateNodeLoraCode(Head(todo), Tail(todo), loraCode, mode, S)
  ELSE [S EXCEPT !.node[n].text = NewText(S.node[n].text, loraCode, mode),
                 !.stack = <<EventFrame(n, todo, loraCode, mode)>> \o @]

RemoteClasses == {LoaderClass, StackerClass, WanClass}

\* The nodes handleLoraCodeUpdate hands to updateNodeLoraCode.
Targets(msg) ==
  IF NumericNodeId(msg) = -1
  THEN {n \in NodeIds : node[n].kind = LoaderClass}
  ELSE {n \in NodeIds : n = NumericNodeId(msg) /\ node[n].kind \in RemoteClasses}

\* getAllGraphNodes order: ascending node id.
RECURSIVE InOrder(_)
InOrder(set) ==
  IF set = {} THEN <<>>
  ELSE LET m == CHOOSE x \in set : \A y \in set : x <= y
       IN <<m>> \o InOrder(set \ {m})

\* ----------------------------------------------------------------- inputs
\* The values a change of the loras widget can bring: an entry toggled, its
\* strength changed, an entry deleted, an entry added.
RemoveAt(list, i) == SubSeq(list, 1, i - 1) \o SubSeq(list, i + 1, Len(list))

ListEdits(list) ==
  ({[list EXCEPT ![i].active = ~@] : i \in 1..Len(list)}
   \cup {[list EXCEPT ![i].strength = s] : i \in 1..Len(list), s \in Strengths}
   \cup {RemoveAt(list, i) : i \in 1..Len(list)}
   \cup {Append(list, Entry(m, 10, TRUE)) : m \in Names \ NamesOf(list)}) \ {list}

TextInputs ==
  { <<>>,
    <<Tok("x", 10)>>,
    <<Word("foo"), SP, Tok("x", 8)>>,
    <<Tok("x", 10), SP, Tok("y", 10)>>,
    <<SP, Bad("y"), SP>> }

\* An event's node id is a number or a string of digits.
MsgNodeIds ==
  { [s |-> FALSE, v |-> -1], [s |-> TRUE, v |-> -1],
    [s |-> FALSE, v |-> 2], [s |-> TRUE, v |-> 3],
    [s |-> FALSE, v |-> 4] }

Messages ==
  [node_id : MsgNodeIds, lora_code : {<<Tok("y", 8)>>},
   mode : {"append", "replace", "none"}]

KindOf == <<LoaderClass, StackerClass, WanClass>>

\* hasInput: onNodeCreated found the text widget (node.inputWidget is set).
FreshNode(k) ==
  [kind |-> k, mode |-> 0, text |-> <<>>, loras |-> <<>>,
   isUpdating |-> FALSE, isSyncingInput |-> FALSE, pending |-> <<>>,
   hasInput |-> TRUE]

\* ---------------------------------------------------------------- actions
Init ==
  /\ node = [n \in NodeIds |-> FreshNode(KindOf[n])]
  /\ links = [n \in NodeIds |-> IF n = 1 THEN 2 ELSE 0]
  /\ stack = <<>>
  /\ act = [k |-> "init", n |-> 0]
  /\ obs = NoObs
  /\ ops = 0
  /\ gw = NewGateway

TopLevel(k, n) ==
  /\ Idle
  /\ ops < MaxOps
  /\ ops' = ops + 1
  /\ act' = [k |-> k, n |-> n]
  /\ UNCHANGED <<links, gw>>

Nested(k, n) ==
  /\ act' = [k |-> k, n |-> n]
  /\ UNCHANGED <<ops, links, gw>>

\* The user edits the loras widget: the widget takes the value and calls its
\* callback.
UserEditLoras(n) ==
  \E v \in ListEdits(node[n].loras) :
    /\ TopLevel("loras", n)
    /\ Commit(LorasCallback(n, v, [Here EXCEPT !.node[n].loras = v, !.obs = NoObs]))

\* The user edits the text widget.
UserEditText(n) ==
  \E t \in TextInputs :
    /\ TopLevel("input", n)
    /\ Commit(InputCallback(n, t, [Here EXCEPT !.node[n].text = t, !.obs = NoObs]))

\* The debounce timer of node n fires.
TimerFire(n) ==
  /\ Idle
  /\ node[n].pending # <<>>
  /\ Commit(SyncInput(n, Head(node[n].pending),
                      [Here EXCEPT !.node[n].pending = Tail(@), !.obs = NoObs]))
  /\ act' = [k |-> "sync", n |-> n]
  /\ UNCHANGED <<ops, links, gw>>

\* handleLoraCodeUpdate(message).
HandleEvent(msg) ==
  LET todo == InOrder(Targets(msg)) IN
  /\ TopLevel("event", NumericNodeId(msg))
  /\ IF todo = <<>> THEN Commit([Here EXCEPT !.obs = [NoObs EXCEPT !.msg = msg]])
     ELSE Commit(updateNodeLoraCode(
                   Head(todo), Tail(todo), msg.lora_code, ModeOf(msg),
                   [Here EXCEPT !.obs = [NoObs EXCEPT !.msg = msg]]))

\* A lora_code_update event arrives.
handleLoraCodeUpdate == \E msg \in Messages : HandleEvent(msg)

Top == stack[1]

Marked == [Here EXCEPT !.stack[1].notified = TRUE]

\* The host calls the loras widget's callback from the text callback's write.
HostNotifyLoras ==
  /\ ~Idle
  /\ Top.h = "input"
  /\ ~Top.notified
  /\ Commit(LorasCallback(Top.n, node[Top.n].loras, Marked))
  /\ Nested("lorasCb", Top.n)

\* The host calls the text widget's callback from a write of the text.
HostNotifyInput ==
  /\ ~Idle
  /\ Top.h \in {"sync", "event"}
  /\ ~Top.notified
  /\ ~Top.called
  /\ Commit(InputCallback(Top.n, node[Top.n].text, Marked))
  /\ Nested("inputCb", Top.n)

InputReturn ==
  /\ ~Idle
  /\ Top.h = "input"
  /\ Commit(InputFinish(Top.n, Here))
  /\ Nested("inputRet", Top.n)

SyncReturn ==
  /\ ~Idle
  /\ Top.h = "sync"
  /\ Commit(SyncFinish(Top.n, Here))
  /\ Nested("syncRet", Top.n)

\* updateNodeLoraCode calls the text callback itself.
EventCall ==
  /\ ~Idle
  /\ Top.h = "event"
  /\ ~Top.called
  /\ Commit(InputCallback(Top.n, node[Top.n].text,
                          [Here EXCEPT !.stack[1].called = TRUE]))
  /\ Nested("inputCall", Top.n)

\* updateNodeLoraCode returns; a broadcast goes on to its next node.
EventReturn ==
  /\ ~Idle
  /\ Top.h = "event"
  /\ Top.called
  /\ IF Top.todo = <<>> THEN Commit([Here EXCEPT !.stack = Tail(@)])
     ELSE Commit(updateNodeLoraCode(Head(Top.todo), Tail(Top.todo), Top.code,
                                    Top.mode, [Here EXCEPT !.stack = Tail(@)]))
  /\ Nested("eventRet", Top.n)

Next ==
  \/ \E n \in NodeIds : UserEditLoras(n)
  \/ \E n \in NodeIds : UserEditText(n)
  \/ \E n \in NodeIds : TimerFire(n)
  \/ handleLoraCodeUpdate
  \/ HostNotifyLoras
  \/ HostNotifyInput
  \/ InputReturn
  \/ SyncReturn
  \/ EventCall
  \/ EventReturn

Spec == Init /\ [][Next]_vars

\* ================================================================ claims
Bottom == stack[Len(stack)]

\* The running top-level dispatch is of kind k.
Bottom_h(k) == act.k = k \/ (stack # <<>> /\ Bottom.h = k)

IsSuffix(p, text) ==
  Len(p) <= Len(text) /\ SubSeq(text, Len(text) - Len(p) + 1, Len(text)) = p

\* ----------------------------------------------------------------- C1
\* What C1 asks of one step.
C1_Step ==
  /\ act'.k = "loras" => \A n \in NodeIds : node'[n].text = node[n].text
  /\ (act'.k = "sync" \/ (stack # <<>> /\ Bottom.h = "sync")) =>
       /\ obs'.writes <= 1
       /\ \A n \in NodeIds :
            /\ node'[n].loras = node[n].loras
            /\ Len(node'[n].pending) <= Len(node[n].pending)

\* C1: no feedback loop.  The handling of a structured-list change writes no
\* text itself; the debounced rewrite it schedules writes the text at most
\* once, and while that rewrite runs (whether or not the host calls the text
\* callback from the write) no node's list changes and no new rewrite is
\* scheduled, so list and text updates never alternate.
C1_NoFeedbackLoop == [][C1_Step]_vars

\* A rewrite wrote the text, the host called the text callback from the
\* write, and the call returned at the guard.
C1_Witness ==
  /\ stack # <<>>
  /\ Top.h = "sync"
  /\ act.k = "inputCb"
  /\ obs.writes = 1
  /\ obs.dropped = 1

\* ----------------------------------------------------------------- C2
\* C2: eventual consistency.  When a node's debounced rewrite has fired and
\* the node has no rewrite pending, the tokens of its text denote exactly the
\* entries of its list; in particular the rewrite has not removed from the
\* text an entry that a text edit made after the scheduling added to the list.
C2_ConsistentAfterRewrite ==
  \A n \in NodeIds :
    (Idle /\ act.k \in {"sync", "syncRet"} /\ act.n = n /\ node[n].pending = <<>>)
      => Denotes(node[n].text, node[n].loras)

\* ----------------------------------------------------------------- C3
\* The text C3 expects, with the blanks found by position.
C3_Expected(T, msg) ==
  LET P == msg.lora_code
      nb == {i \in 1..Len(T) : T[i] # SP}
      lo == CHOOSE i \in nb : \A j \in nb : i <= j
      hi == CHOOSE i \in nb : \A j \in nb : j <= i
  IN IF msg.mode = "replace" THEN P
     ELSE IF nb = {} THEN P
     ELSE SubSeq(T, lo, hi) \o <<SP>> \o P

\* What C3 asks of one step.
C3_Step ==
  (act'.k \in {"event", "eventRet"} /\ stack' # <<>>) =>
    LET n == stack'[1].n IN
    node'[n].text = C3_Expected(node[n].text, obs'.msg)

\* C3: the text an event writes.  In mode "replace" the text becomes the
\* payload; otherwise (mode "append" or none) it becomes the current text
\* without its leading and trailing blanks, one blank and the payload, or the
\* payload alone when the current text has nothing but blanks.
C3_EventText == [][C3_Step]_vars

\* An append has trimmed blanks at both ends of a non-blank text.
C3_Witness ==
  /\ act.k = "event"
  /\ obs.msg.mode = "none"
  /\ stack # <<>>
  /\ node[Top.n].text = <<Bad("y"), SP, Tok("y", 8)>>

\* ----------------------------------------------------------------- C4
\* Node n accepts the event when it is addressed by n's own id.
AcceptsDirected(msg, n) ==
  Targets([msg EXCEPT !.node_id = [s |-> FALSE, v |-> n]]) # {}

\* C4: a broadcast (node_id -1) reaches all.  When the handling of an event
\* with node_id -1 is over, every node that accepts the event under its own
\* node_id has the payload at the end of its text.
C4_BroadcastReachesAll ==
  (Idle /\ act.k \in {"event", "eventRet"} /\ NumericNodeId(obs.msg) = -1) =>
    \A n \in NodeIds :
      AcceptsDirected(obs.msg, n) => IsSuffix(obs.msg.lora_code, node[n].text)

\* ----------------------------------------------------------------- C5
\* What C5 asks of one step.
C5_Step ==
  \A n \in NodeIds :
    (act'.k \in {"input", "inputCb", "inputCall"} /\ act'.n = n) =>
      \A j \in 1..Len(node'[n].loras) :
        LET e == node'[n].loras[j] IN
        IF e.name \in NamesOf(node[n].loras)
        THEN \E i \in 1..Len(node[n].loras) :
               /\ node[n].loras[i].name = e.name
               /\ node[n].loras[i].active = e.active
        ELSE e.active

\* C5: a textual edit never disables an entry.  When the text callback merges
\* into the list, every entry that stays in the list keeps its active flag,
\* and every entry that is new is active.
C5_EditKeepsActive == [][C5_Step]_vars

\* A text edit has been merged into a list that holds a disabled entry whose
\* token the text holds, and has added an entry.
C5_Witness ==
  \E n \in NodeIds :
    /\ act.k = "input"
    /\ act.n = n
    /\ Len(node[n].loras) = 2
    /\ ~node[n].loras[1].active
    /\ node[n].loras[1].name \in NamesOf(Decode(node[n].text))
    /\ node[n].loras[2].active
    /\ node[n].pending # <<>>
    /\ Len(Head(node[n].pending)) = 1

\* ----------------------------------------------------------------- C6
\* What C6 asks of one step.
C6_Step ==
  /\ (act'.k \in {"lorasCb", "inputCb", "inputCall"} /\ node[act'.n].isUpdating) =>
       /\ node' = node
       /\ obs'.tw = obs.tw
       /\ obs'.ds = obs.ds
       /\ Len(stack') = Len(stack)
  /\ act'.k \in {"inputRet", "syncRet"} =>
       \A n \in NodeIds :
         /\ node'[n].text = node[n].text
         /\ node'[n].loras = node[n].loras
         /\ node'[n].pending = node[n].pending

\* C6: a change that arrives while the node is Updating is dropped.  A call of
\* the loras callback or the text callback on a node whose isUpdating is set
\* notifies no collaborator, changes no node (no merge, no scheduled rewrite)
\* and starts no handler; and when the running handler then returns, the
\* return changes no text or list and schedules nothing, so the dropped
\* change is not replayed.
C6_DroppedWhileUpdating == [][C6_Step]_vars

\* The host called the loras callback from the text callback's write of the
\* list, and the call returned at the guard.
C6_Witness ==
  /\ stack # <<>>
  /\ Top.h = "input"
  /\ Top.notified
  /\ act.k = "lorasCb"
  /\ obs.dropped = 1
  /\ node[Top.n].isUpdating
  /\ node[Top.n].loras # <<>>

\* ----------------------------------------------------------------- C7
\* What C7 asks of every state, and of a step of the timer.
C7_OnePending ==
  /\ \A n \in NodeIds : Len(node[n].pending) <= 1
  /\ act.k = "loras" => node[act.n].pending = <<node[act.n].loras>>

C7_Step ==
  act'.k = "sync" =>
    /\ node'[act'.n].pending = <<>>
    /\ node'[act'.n].text =
         applyLoraValuesToText(node[act'.n].text,
                               node[act'.n].pending[Len(node[act'.n].pending)])

\* C7: trailing-edge debounce.  A node never has more than one rewrite
\* pending; right after an accepted structured-list change the pending
\* rewrite carries the list value of that change (an earlier pending one is
\* gone); and when the timer fires, nothing stays pending and the text is the
\* encoding of that last value.
C7_TrailingEdge == []C7_OnePending /\ [][C7_Step]_vars

\* A structured-list change has replaced a rewrite that was pending with a
\* different list value.
C7_Witness ==
  /\ act.k = "loras"
  /\ obs.replaced = 1
  /\ Len(node[act.n].pending) = 1
  /\ Len(node[act.n].loras) = 2

\* ----------------------------------------------------------------- C8
\* What C8 asks of every state.
IsStacker(n) == n \in NodeIds /\ node[n].kind = StackerClass

C8_Counts ==
  IsStacker(act.n) =>
    /\ (Bottom_h("loras") \/ Bottom_h("input")) => (obs.tw <= 1 /\ obs.ds <= 1)
    /\ (Idle /\ act.k \in {"loras", "inputRet"} /\ obs.msg = NoMsg) =>
         (obs.tw = 1 /\ obs.ds = 1)
    /\ Bottom_h("sync") => (obs.tw = 0 /\ obs.ds = 0)

\* Each accepted call of a stacker's callback makes one call of each
\* collaborator, and no other step makes any.
C8_Step ==
  IsStacker(act'.n) =>
    CASE act'.k = "inputRet" -> obs'.tw = obs.tw + 1 /\ obs'.ds = obs.ds + 1
      [] act'.k = "loras" -> obs'.tw = 1 /\ obs'.ds = 1
      [] act'.k \in {"input", "sync", "event"} -> obs'.tw = 0 /\ obs'.ds = 0
      [] OTHER -> obs'.tw = obs.tw /\ obs'.ds = obs.ds

\* C8: propagation exactly once per logical change.  While a user's list or
\* text change on a Lora Stacker node is handled, the trigger-word
\* notification and the downstream propagation are each called at most once,
\* and exactly once when the handling is over; a debounced rewrite on a
\* stacker calls neither.
C8_OncePerChange == []C8_Counts /\ [][C8_Step]_vars

\* A text change on a stacker is over, during which the host called the loras
\* callback from the write of the list.
C8_Witness ==
  /\ IsStacker(act.n)
  /\ Idle
  /\ act.k = "inputRet"
  /\ obs.msg = NoMsg
  /\ obs.dropped = 1
  /\ obs.tw = 1
  /\ obs.ds = 1

\* ----------------------------------------------------------------- C9
\* What C9 asks of one step.
IsEventStep(k) == k \in {"event", "eventRet"}

C9_Step ==
  \A b \in NodeIds :
    /\ (~IsEventStep(act'.k) /\ act'.n # b /\ obs'.msg = NoMsg) => node'[b] = node[b]
    /\ node'[b].text # node[b].text =>
         \/ act'.k \in {"input", "sync"} /\ act'.n = b
         \/ /\ IsEventStep(act'.k)
            /\ NumericNodeId(obs'.msg) \in {b, -1}
    /\ (IsEventStep(act'.k) \/ obs'.msg # NoMsg) =>
         \A f \in {"loras", "pending"} :
           (stack' = <<>> \/ stack'[1].n # b) => node'[b][f] = node[b][f]

\* C9: node state is exclusively owned.  A step of a list change, a text
\* change or a debounced rewrite on one node leaves every other node's record
\* unchanged, and a node's text changes in a step only if the step is a text
\* edit or a rewrite on that node or the write of an event that is addressed
\* to the node or broadcast.
C9_ExclusiveOwnership == [][C9_Step]_vars

\* A list change on one node has scheduled a rewrite while another node has a
\* rewrite pending and a third has text and entries of its own.
C9_Witness ==
  \E a, b, c \in NodeIds :
    /\ a # b /\ b # c /\ a # c
    /\ act.k = "loras"
    /\ act.n = a
    /\ node[a].pending # <<>>
    /\ node[b].pending # <<>>
    /\ node[b].pending # node[a].pending
    /\ node[c].text # <<>>
    /\ node[c].loras # <<>>

\* ---------------------------------------------------------------- C10
\* The graphs of the chain specification: nodes 1 and 2 are stackers or
\* WanVideo nodes, node 3 is a loader; a stack input is linked to nothing or
\* to a stacker (a cycle of stackers included); every node has a mode and a
\* list of its own, and the text that encodes the list.
ChainLists ==
  { <<>>,
    <<Entry("x", 10, TRUE)>>,
    <<Entry("y", 10, FALSE)>>,
    <<Entry("y", 8, TRUE), Entry("x", 10, FALSE)>> }

ChainModes == {0, 4}

ChainKinds ==
  {k \in [NodeIds -> {LoaderClass, StackerClass, WanClass}] :
     k[3] = LoaderClass /\ k[1] # LoaderClass /\ k[2] # LoaderClass}

LoadedNode(k, m, list) ==
  [FreshNode(k) EXCEPT !.mode = m, !.loras = list,
                       !.text = applyLoraValuesToText(<<>>, list)]

InitChain ==
  /\ \E k \in ChainKinds, m \in [NodeIds -> ChainModes],
        l \in [NodeIds -> ChainLists] :
       node = [n \in NodeIds |-> LoadedNode(k[n], m[n], l[n])]
  /\ links \in [NodeIds -> {0} \cup NodeIds]
  /\ \A n \in NodeIds :
       links[n] # 0 => (AcceptsStack(node, n) /\ node[links[n]].kind = StackerClass)
  /\ stack = <<>>
  /\ act = [k |-> "init", n |-> 0]
  /\ obs = NoObs
  /\ ops = 0
  /\ gw = NewGateway

\* One change of a loader's list or text.
ChainListChange ==
  \E n \in NodeIds : ops = 0 /\ node[n].kind = LoaderClass /\ UserEditLoras(n)

ChainTextChange ==
  \E n \in NodeIds : ops = 0 /\ node[n].kind = LoaderClass /\ UserEditText(n)

NextChain ==
  \/ ChainListChange
  \/ ChainTextChange
  \/ HostNotifyLoras
  \/ InputReturn

SpecChain == InitChain /\ [][NextChain]_vars

\* The nodes reachable upstream of n through stack links, n included.
RECURSIVE UpstreamClosure(_)
UpstreamClosure(S) ==
  LET more == {links[a] : a \in {b \in S : AcceptsStack(node, b) /\ links[b] # 0}}
  IN IF more \subseteq S THEN S ELSE UpstreamClosure(S \cup more)

C10_Expected(n) ==
  UNION { {node[m].loras[i].name :
             i \in {j \in 1..Len(node[m].loras) : node[m].loras[j].active}} :
          m \in {r \in UpstreamClosure({n}) : node[r].mode \notin {2, 4}} }

\* C10: the active set a loader collects.  The names a loader hands to the
\* trigger-word collaborator on an accepted list or text change are exactly
\* the names of the active entries of the nodes reachable upstream through
\* stack links (the loader included) whose mode is not disabled or bypassed.
C10_CollectActive ==
  (act.k \in {"loras", "inputRet"} /\ node[act.n].kind = LoaderClass) =>
    obs.active = C10_Expected(act.n)

\* The chain A -> B -> C with A = [x active], B = [y inactive] and C enabled
\* and without entries: C has collected {x}.
C10_Witness ==
  /\ links = <<0, 1, 2>>
  /\ node[1].loras = <<Entry("x", 10, TRUE)>>
  /\ node[2].loras = <<Entry("y", 10, FALSE)>>
  /\ node[3].loras = <<>>
  /\ \A n \in NodeIds : node[n].mode = 0
  /\ act = [k |-> "inputRet", n |-> 3]
  /\ obs.active = {"x"}

\* ---------------------------------------------------------------- C11
\* The graphs of the kinds specification: one node of each kind, the loader
\* fed by the stacker, every node loaded with a mode and a list of its own.
KindModes == {0, 2, 3, 4}

InitKinds ==
  /\ \E m \in [NodeIds -> KindModes], l \in [NodeIds -> ChainLists] :
       node = [n \in NodeIds |-> LoadedNode(KindOf[n], m[n], l[n])]
  /\ links = [n \in NodeIds |-> IF n = 1 THEN 2 ELSE 0]
  /\ stack = <<>>
  /\ act = [k |-> "init", n |-> 0]
  /\ obs = NoObs
  /\ ops = 0
  /\ gw = NewGateway

\* One change of a node's list or text, on a node of any kind.
KindListChange == \E n \in NodeIds : ops = 0 /\ UserEditLoras(n)

KindTextChange == \E n \in NodeIds : ops = 0 /\ UserEditText(n)

NextKinds ==
  \/ KindListChange
  \/ KindTextChange
  \/ HostNotifyLoras
  \/ InputReturn

SpecKinds == InitKinds /\ [][NextKinds]_vars

\* Mode 2 is "never" (disabled), mode 4 is "bypass".
C11_Disabled(n) == node[n].mode \in {2, 4}

\* What the node's own entries contribute to the set it reports.
C11_Own(n) ==
  IF C11_Disabled(n) THEN {}
  ELSE {node[n].loras[i].name :
          i \in {j \in 1..Len(node[n].loras) : node[n].loras[j].active}}

\* What the nodes upstream of a loader contribute.
C11_Upstream(n) ==
  IF node[n].kind # LoaderClass THEN {}
  ELSE UNION { {node[m].loras[i].name :
                  i \in {j \in 1..Len(node[m].loras) : node[m].loras[j].active}} :
               m \in {r \in UpstreamClosure({n}) \ {n} : ~C11_Disabled(r)} }

\* C11: own entries and the execution mode.  On an accepted list or text
\* change of a node of any remote kind, the names handed to the trigger-word
\* collaborator hold nothing of the node's own entries when the node is
\* disabled or bypassed, and exactly the names of its own active entries
\* (besides what a loader collects upstream) when it is enabled.
C11_OwnEntriesByMode ==
  act.k \in {"loras", "inputRet"} =>
    obs.active = C11_Own(act.n) \cup C11_Upstream(act.n)

\* ---------------------------------------------------------------- C12
\* The clock of the gateway's process advances.
Tick ==
  \E d \in TickSteps :
    /\ gw.ticks < MaxTicks
    /\ gw' = [gw EXCEPT !.now = @ + d, !.ticks = @ + 1,
                        !.last = [NoCall EXCEPT !.op = "tick"]]
    /\ UNCHANGED <<node, stack, act, obs, ops, links>>

\* A consumer fetches through the cache.
FetchCached ==
  \E key \in CacheKeys, ttl \in Ttls, remote \in RemoteValues \cup {Failed} :
    /\ gw' = fetchCached(key, ttl, remote, gw)
    /\ UNCHANGED <<node, stack, act, obs, ops, links>>

NextCache ==
  \/ Tick
  \/ FetchCached

SpecCache == Init /\ [][NextCache]_vars

\* What C12 asks of one step.
C12_Step ==
  gw'.last.op = "fetch" =>
    LET key == gw'.last.key
        e == gw.cache[key]
    IN /\ \A k \in CacheKeys \ {key} : gw'.cache[k] = gw.cache[k]
       /\ gw'.now = gw.now
       /\ IF e.set /\ gw.now < e.expiresAt
          THEN /\ gw'.last.calls = 0
               /\ gw'.last.ret = e.value
               /\ gw'.cache[key] = e
          ELSE /\ gw'.last.calls = 1
               /\ gw'.last.ret # Failed =>
                    gw'.cache[key] =
                      CacheEntry(gw'.last.ret, gw.now + gw'.last.ttl)

\* C12: cache TTL.  For every key, a fetch made while now < expiresAt of the
\* stored entry returns the stored value, makes no remote call and leaves the
\* cache as it is; a fetch made at or after expiresAt (or with nothing
\* stored) makes one remote call and stores its result with
\* expiresAt = now + ttlSeconds; no fetch touches another key's entry.
C12_CacheTtl == [][C12_Step]_vars

\* An entry stored at second 0 with ttl 60 was found expired by a fetch at
\* second 61, which made a remote call and stored the answer until 121;
\* meanwhile the other key's entry, stored at second 59, is still fresh.
C12_Witness ==
  LET this == <<"/api/lm/loras/list", "">>
      other == <<"/api/lm/loras/list", "pool">>
  IN /\ gw.now = TtlSeconds + 1
     /\ gw.last.op = "fetch"
     /\ gw.last.key = this
     /\ gw.last.had = CacheEntry("v1", TtlSeconds)
     /\ gw.last.calls = 1
     /\ gw.cache[this] = CacheEntry("v2", 2 * TtlSeconds + 1)
     /\ gw.cache[other].set
     /\ gw.cache[other].expiresAt = 2 * TtlSeconds - 1

\* ---------------------------------------------------------------- C13
\* The paths of inbound requests.
RequestPaths ==
  { <<"api", "lm", "loras", "get_trigger_words">>,
    <<"api", "lm", "loras", "list">>,
    <<"api", "lm", "update-lora-code">>,
    <<"api", "lm">>,
    <<"api", "prompt">>,
    <<"loras">>,
    <<"loras", "recipes">>,
    <<"loras", "recipes", "old">>,
    <<"loras_static", "a.png">>,
    <<"view">> }

\* The middleware consults the table for an inbound request.
RouteRequest ==
  \E path \in RequestPaths :
    /\ gw' = [gw EXCEPT !.last =
                [NoCall EXCEPT !.op = "route", !.path = path,
                               !.rule = routeRequest(path),
                               !.outcome = Disposition(routeRequest(path))]]
    /\ UNCHANGED <<node, stack, act, obs, ops, links>>

NextGateway ==
  \/ Tick
  \/ FetchCached
  \/ RouteRequest

SpecGateway == Init /\ [][NextGateway]_vars

\* C13: route precedence.  A routed request gets the rule that stands first
\* in the table among those matching its path, and that rule's disposition:
\* /api/lm/loras/get_trigger_words is handled locally and not forwarded,
\* /api/lm/loras/list is forwarded; a path no rule matches is not found, and
\* is not forwarded.
C13_RoutePrecedence ==
  gw.last.op = "route" =>
    LET path == gw.last.path
        m == {i \in 1..Len(RouteTable) : Matches(RouteTable[i], path)}
    IN /\ m = {} => (gw.last.rule = 0 /\ gw.last.outcome = "notFound")
       /\ m # {} =>
            /\ gw.last.rule \in m
            /\ \A i \in m : gw.last.rule <= i
            /\ gw.last.outcome = RouteTable[gw.last.rule].disposition
       /\ path = <<"api", "lm", "loras", "get_trigger_words">> =>
            gw.last.outcome = "localHandle"
       /\ path = <<"api", "lm", "loras", "list">> =>
            gw.last.outcome = "forward"

\* A request to /api/lm/loras/get_trigger_words, which the forwarding prefix
\* /api/lm/* matches too, got the local rule.
C13_Witness ==
  /\ gw.last.op = "route"
  /\ gw.last.path = <<"api", "lm", "loras", "get_trigger_words">>
  /\ Cardinality({i \in 1..Len(RouteTable) :
                    Matches(RouteTable[i], gw.last.path)}) = 2
  /\ gw.last.rule = 1
  /\ gw.last.outcome = "localHandle"

\* ---------------------------------------------------------------- C14
\* The texts of the codec specification: every text of up to MaxItems items,
\* free text, blanks, malformed and well-formed tokens in any order.
MaxItems == 3

\* List changes made in one run of the codec specification.
MaxEdits == 2

TextItems == {SP, Word("foo"), Bad("y"), Tok("x", 10), Tok("y", 8)}

Texts == UNION {[1..k -> TextItems] : k \in 0..MaxItems}

SavedLists == { <<>>, <<Entry("y", 10, FALSE)>> }

\* A loader comes out of a saved workflow with any text and with the list
\* loadedGraphNode merges from the text and the saved list.
InitCodec ==
  /\ \E t \in Texts, l \in SavedLists :
       node = [n \in NodeIds |->
                 IF KindOf[n] = LoaderClass
                 THEN [FreshNode(KindOf[n]) EXCEPT !.text = t,
                                                   !.loras = mergeLoras(t, l)]
                 ELSE FreshNode(KindOf[n])]
  /\ links = [n \in NodeIds |-> IF n = 1 THEN 2 ELSE 0]
  /\ stack = <<>>
  /\ act = [k |-> "init", n |-> 0]
  /\ obs = NoObs
  /\ ops = 0
  /\ gw = NewGateway

\* Changes of the loader's list and the rewrites they schedule.
CodecListChange ==
  \E n \in NodeIds :
    ops < MaxEdits /\ node[n].kind = LoaderClass /\ UserEditLoras(n)

CodecRewrite == \E n \in NodeIds : TimerFire(n)

NextCodec ==
  \/ CodecListChange
  \/ CodecRewrite
  \/ HostNotifyInput
  \/ SyncReturn

SpecCodec == InitCodec /\ [][NextCodec]_vars

NotTok(it) == ~IsTok(it)

\* The items of a text that are not well-formed tokens, in order.
FreeText(text) == SelectSeq(text, NotTok)

\* Text `after` holds every token-free stretch of text `before` unchanged,
\* and has no free text that `before` has not, separators at its end aside.
Preserved(before, after) ==
  /\ \A i, j \in 1..Len(before) :
       (i <= j /\ \A k \in i..j : NotTok(before[k])) =>
         \E k \in 0..(Len(after) - (j - i + 1)) :
           SubSeq(after, k + 1, k + (j - i + 1)) = SubSeq(before, i, j)
  /\ Len(FreeText(before)) <= Len(FreeText(after))
  /\ \A i \in 1..Len(FreeText(after)) :
       FreeText(after)[i] =
         IF i <= Len(FreeText(before)) THEN FreeText(before)[i] ELSE SP

\* What C14 asks of one step.
C14_Step ==
  act'.k \notin {"input", "event", "eventRet"} =>
    \A n \in NodeIds : Preserved(node[n].text, node'[n].text)

\* C14: non-lora text preservation.  A step that is not a text edit or an
\* event's write (a list change, a debounced rewrite with whatever list it
\* carries, a callback called from the rewrite's write) leaves every stretch
\* of the text that holds no well-formed token as it is, so the free text is
\* still in the text after any sequence of list changes and rewrites.
C14_FreeTextPreserved == [][C14_Step]_vars

\* A rewrite has deleted the token that stood between two words and appended
\* the token of an added entry: both words are still there.
C14_Witness ==
  \E n \in NodeIds :
    /\ act = [k |-> "sync", n |-> n]
    /\ obs.writes = 1
    /\ node[n].text = <<Word("foo"), Word("foo"), SP, Tok("y", 10)>>

\* ---------------------------------------------------------------- C15
\* The merge specification: nodes of the three kinds come out of a saved
\* workflow with a list of their own; a text is handled, and then the same
\* text is handled again.
InitMerge ==
  /\ \E l \in [NodeIds -> ChainLists] :
       node = [n \in NodeIds |-> LoadedNode(KindOf[n], 0, l[n])]
  /\ links = [n \in NodeIds |-> IF n = 1 THEN 2 ELSE 0]
  /\ stack = <<>>
  /\ act = [k |-> "init", n |-> 0]
  /\ obs = NoObs
  /\ ops = 0
  /\ gw = NewGateway

MergeTextChange == \E n \in NodeIds : ops = 0 /\ UserEditText(n)

MergeSameTextAgain ==
  \E n \in NodeIds :
    /\ ops = 1
    /\ act = [k |-> "inputRet", n |-> n]
    /\ UserEditText(n)
    /\ node'[n].text = node[n].text

NextMerge ==
  \/ MergeTextChange
  \/ MergeSameTextAgain
  \/ HostNotifyLoras
  \/ InputReturn

SpecMerge == InitMerge /\ [][NextMerge]_vars

\* What C15 asks of every state: merging a node's list with itself gives the
\* list, entry by entry.
C15_MergeSelf ==
  \A n \in NodeIds : Merge(node[n].loras, node[n].loras) = node[n].loras

\* What C15 asks of one step: the text callback handling the text it has
\* just handled.
C15_Step ==
  \A n \in NodeIds :
    (/\ Idle
     /\ act = [k |-> "inputRet", n |-> n]
     /\ act' = [k |-> "input", n |-> n]
     /\ node'[n].text = node[n].text) =>
      node'[n].loras = node[n].loras

\* C15: merge idempotence.  merge(L, L) = L for every list a node holds,
\* order, strengths and active flags included; and when the text callback
\* handles the same text twice in a row, the list after the second handling
\* is the list after the first.
C15_MergeIdempotent == []C15_MergeSelf /\ [][C15_Step]_vars

\* The same text has been handled twice in a row on a node whose list holds
\* an entry the text does not name and a disabled entry whose strength the
\* text has changed.
C15_Witness ==
  \E n \in NodeIds :
    /\ ops = 2
    /\ act = [k |-> "input", n |-> n]
    /\ node[n].text = <<Word("foo"), SP, Tok("x", 8)>>
    /\ node[n].loras = <<Entry("y", 8, TRUE), Entry("x", 8, FALSE)>>

\* ---------------------------------------------------------------- C16
\* What C16 asks of one step.
C16_Step ==
  /\ act'.k = "sync" =>
       LET n == act'.n
           encoded == applyLoraValuesToText(node[n].text, Head(node[n].pending))
       IN IF encoded = node[n].text
          THEN /\ obs'.writes = 0
               /\ node'[n].text = node[n].text
               /\ stack' = <<>>
          ELSE /\ obs'.writes = 1
               /\ node'[n].text = encoded
  /\ (act'.k = "inputCb" /\ Top.h = "sync") => obs.writes = 1

\* C16: the rewrite writes only a text that differs.  When the timer fires
\* and the encoding of the current text with the carried list is the current
\* text, the text widget is not assigned and the rewrite is over at once, so
\* the host has no write from which to call the text callback; the host
\* calls the text callback from a rewrite only after a write.
C16_WriteOnlyIfDifferent == [][C16_Step]_vars

\* A rewrite has fired on a node whose text already encodes the carried
\* list, a list with a disabled entry: nothing was written.
C16_Witness ==
  \E n \in NodeIds :
    /\ act = [k |-> "sync", n |-> n]
    /\ obs.writes = 0
    /\ Idle
    /\ node[n].text = <<Word("foo"), SP, Tok("x", 8)>>
    /\ node[n].loras = <<Entry("x", 8, FALSE)>>

\* ---------------------------------------------------------------- C17
\* The bodies of a node's handlers that are running: the text callback
\* between its guard and its finally block, the debounced function between
\* its guard and its finally block.
BodyFrames(n) ==
  {i \in 1..Len(stack) : stack[i].n = n /\ stack[i].h \in {"input", "sync"}}

\* At most one body runs on a node, and the node's isUpdating is set while
\* it does.
C17_OneBody ==
  \A n \in NodeIds :
    /\ Cardinality(BodyFrames(n)) <= 1
    /\ BodyFrames(n) # {} => node[n].isUpdating

\* What C17 asks of the two calls the host makes from a handler's write.
C17_Step ==
  /\ (act'.k = "inputCb" /\ Top.h = "sync") =>
       /\ node'[Top.n].loras = node[Top.n].loras
       /\ BodyFrames(Top.n)' = BodyFrames(Top.n)
  /\ act'.k = "lorasCb" =>
       /\ obs'.tw = obs.tw
       /\ obs'.ds = obs.ds
       /\ node'[Top.n].pending = node[Top.n].pending
       /\ BodyFrames(Top.n)' = BodyFrames(Top.n)

\* C17: no handler body runs re-entrantly.  The text callback the host calls
\* from the rewrite's write of the text starts no body and merges nothing
\* into the list; the loras callback the host calls from the text callback's
\* write of the list notifies no collaborator and schedules no rewrite; and
\* never do two handler bodies of one node run at once.
C17_NoReentrantBody == []C17_OneBody /\ [][C17_Step]_vars

\* On the WanVideo node the text callback wrote a list of two entries, the
\* host called the loras callback from the write, and that call came back
\* with no notification made and no rewrite scheduled.
C17_Witness ==
  \E n \in NodeIds :
    /\ node[n].kind = WanClass
    /\ act = [k |-> "lorasCb", n |-> n]
    /\ BodyFrames(n) = {1}
    /\ Len(stack) = 1
    /\ Len(node[n].loras) = 2
    /\ obs.tw = 0
    /\ node[n].pending = <<>>

\* ---------------------------------------------------------------- C18
\* Top-level callbacks dispatched in one run of the failure specification.
MaxDispatches == 2

\* Mutant: the handlers without their finally blocks.
ReleaseTopNoFinally(S) == [S EXCEPT !.stack = Tail(@)]

\* An exception leaves the handler on top of the call stack: the finally
\* block of a node's callback clears isUpdating, that of the debounced
\* function clears both flags, updateNodeLoraCode has none.
ReleaseTop(S) ==
  LET f == S.stack[1] IN
  CASE f.h \in {"loras", "input"} ->
         [S EXCEPT !.node[f.n].isUpdating = FALSE, !.stack = Tail(@)]
    [] f.h = "sync" ->
         [S EXCEPT !.node[f.n].isUpdating = FALSE,
                   !.node[f.n].isSyncingInput = FALSE,
                   !.stack = Tail(@)]
    [] OTHER -> [S EXCEPT !.stack = Tail(@)]

\* No handler catches: the exception goes up through every running handler
\* to the host.
RECURSIVE Unwind(_)
Unwind(S) == IF S.stack = <<>> THEN S ELSE Unwind(ReleaseTop(S))

\* The loras callback when collectActiveLorasFromChain or a collaborator
\* throws: the guard is taken, the finally block runs, scheduleInputSync is
\* not reached.
LorasCallbackRaises(n, S) ==
  IF S.node[n].isUpdating THEN [S EXCEPT !.obs.dropped = @ + 1]
  ELSE Unwind([S EXCEPT !.node[n].isUpdating = TRUE,
                        !.stack = <<Frame("loras", n)>> \o @])

\* The text callback when mergeLoras throws: the list is not written.
InputCallbackRaises(n, S) ==
  IF S.node[n].isUpdating THEN [S EXCEPT !.obs.dropped = @ + 1]
  ELSE Unwind([S EXCEPT !.node[n].isUpdating = TRUE,
                        !.stack = <<Frame("input", n)>> \o @])

\* The debounced function when applyLoraValuesToText throws: the text is not
\* written.
SyncInputRaises(n, S) ==
  IF S.node[n].isSyncingInput THEN S
  ELSE Unwind([S EXCEPT !.node[n].isSyncingInput = TRUE,
                        !.node[n].isUpdating = TRUE,
                        !.stack = <<Frame("sync", n)>> \o @])

FailEditLoras == \E n \in NodeIds : ops < MaxDispatches /\ UserEditLoras(n)

FailEditText == \E n \in NodeIds : ops < MaxDispatches /\ UserEditText(n)

FailEvent == ops < MaxDispatches /\ handleLoraCodeUpdate

FailTimer == \E n \in NodeIds : TimerFire(n)

\* A list edit whose handling throws.
LorasThrows ==
  \E n \in NodeIds : \E v \in ListEdits(node[n].loras) :
    /\ ops < MaxDispatches
    /\ TopLevel("lorasThrow", n)
    /\ Commit(LorasCallbackRaises(n, [Here EXCEPT !.node[n].loras = v,
                                                  !.obs = NoObs]))

\* A text edit whose merge throws.
TextThrows ==
  \E n \in NodeIds, t \in TextInputs :
    /\ ops < MaxDispatches
    /\ TopLevel("inputThrow", n)
    /\ Commit(InputCallbackRaises(n, [Here EXCEPT !.node[n].text = t,
                                                  !.obs = NoObs]))

\* The timer fires and the encoding throws.
TimerThrows ==
  \E n \in NodeIds :
    /\ Idle
    /\ node[n].pending # <<>>
    /\ Commit(SyncInputRaises(n, [Here EXCEPT !.node[n].pending = Tail(@),
                                              !.obs = NoObs]))
    /\ act' = [k |-> "syncThrow", n |-> n]
    /\ UNCHANGED <<ops, links, gw>>

\* The text callback the host calls from a write of the text throws in its
\* merge.
HostNotifyInputThrows ==
  /\ ~Idle
  /\ Top.h \in {"sync", "event"}
  /\ ~Top.notified
  /\ ~Top.called
  /\ Commit(InputCallbackRaises(Top.n, Marked))
  /\ Nested("inputCbThrow", Top.n)

\* The text callback updateNodeLoraCode calls throws in its merge.
EventCallThrows ==
  /\ ~Idle
  /\ Top.h = "event"
  /\ ~Top.called
  /\ Commit(InputCallbackRaises(Top.n, [Here EXCEPT !.stack[1].called = TRUE]))
  /\ Nested("inputCallThrow", Top.n)

\* The text callback has written the list, and a collaborator throws.
InputReturnThrows ==
  /\ ~Idle
  /\ Top.h = "input"
  /\ Commit(Unwind(Here))
  /\ Nested("finishThrow", Top.n)

NextFail ==
  \/ FailEditLoras
  \/ FailEditText
  \/ FailEvent
  \/ FailTimer
  \/ HostNotifyLoras
  \/ HostNotifyInput
  \/ InputReturn
  \/ SyncReturn
  \/ EventCall
  \/ EventReturn
  \/ LorasThrows
  \/ TextThrows
  \/ TimerThrows
  \/ HostNotifyInputThrows
  \/ EventCallThrows
  \/ InputReturnThrows

SpecFail == Init /\ [][NextFail]_vars

ThrowSteps ==
  {"lorasThrow", "inputThrow", "syncThrow", "inputCbThrow", "inputCallThrow",
   "finishThrow"}

\* C18: guards are always released.  A node on which no handler body is
\* running has both isUpdating and isSyncingInput clear, whether the last
\* body returned or was left by an exception of a collaborator, of the merge
\* or of the encoding; and an exception that a guard did not stop leaves no
\* handler running.
C18_GuardsReleased ==
  /\ \A n \in NodeIds :
       BodyFrames(n) = {} => (~node[n].isUpdating /\ ~node[n].isSyncingInput)
  /\ (act.k \in ThrowSteps /\ obs.dropped = 0) => Idle

\* Inside an event the text callback wrote the list and a collaborator
\* threw: the exception has left the callback and updateNodeLoraCode, and the
\* node's guards are clear.
C18_Witness ==
  \E n \in NodeIds :
    /\ act = [k |-> "finishThrow", n |-> n]
    /\ obs.msg # NoMsg
    /\ Idle
    /\ node[n].loras # <<>>
    /\ ~node[n].isUpdating
    /\ ~node[n].isSyncingInput

\* ---------------------------------------------------------------- C19
TopLevelSteps == {"loras", "input", "sync", "event"}

\* What C19 asks of one step.
C19_Step ==
  /\ act'.k \in TopLevelSteps =>
       /\ stack = <<>>
       /\ \A n \in NodeIds : ~node[n].isUpdating /\ ~node[n].isSyncingInput
       /\ obs'.dropped = 0
  /\ (act'.k \notin TopLevelSteps /\ obs'.dropped # obs.dropped) =>
       /\ act'.k \in {"lorasCb", "inputCb"}
       /\ BodyFrames(act'.n) # {}
  /\ act'.k = "inputCall" => Len(stack') = Len(stack) + 1

\* C19: a top-level dispatch finds the node idle.  When the host dispatches a
\* user's list edit, a user's text edit, a timer or an event, no handler is
\* running and every node has both guards clear, so the dispatched callback
\* is not dropped; a callback is dropped only when the host calls it from the
\* write of a handler body that is running on the node; and the text
\* callback that an event's updateNodeLoraCode calls is always let in.
C19_IdleAtDispatch == [][C19_Step]_vars

\* A list edit has been let in on a node that had a text handled and a
\* rewrite written before, on the last dispatch of the run.
C19_Witness ==
  \E n \in NodeIds :
    /\ act = [k |-> "loras", n |-> n]
    /\ ops = MaxOps
    /\ obs.dropped = 0
    /\ obs.tw = 1
    /\ node[n].text = <<Word("foo"), SP, Tok("x", 8), SP, Tok("y", 10)>>
    /\ node[n].pending = <<node[n].loras>>
    /\ ~node[n].loras[1].active

\* ---------------------------------------------------------------- C20
\* Events handled in one run of the event specification.
MaxEvents == 2

\* A node of the graph that is none of the remote nodes.
OtherClass == "KSampler"

EventKinds == [NodeIds -> RemoteClasses \cup {OtherClass}]

\* The events of the event specification are addressed to each node of the
\* graph, to a node that is not in the graph, or to all.
EventMessages ==
  [node_id : {[s |-> FALSE, v |-> i] : i \in NodeIds \cup {4, -1}}
               \cup {[s |-> TRUE, v |-> 4]},
   lora_code : {<<Tok("y", 8)>>},
   mode : {"append"}]

\* A graph of nodes of any class, each with or without a text widget; a node
\* with one holds a text and the list merged from it.
InitEvent ==
  /\ \E k \in EventKinds, w \in [NodeIds -> BOOLEAN] :
       node = [n \in NodeIds |->
                 IF w[n]
                 THEN LoadedNode(k[n], 0, <<Entry("x", 10, TRUE)>>)
                 ELSE [FreshNode(k[n]) EXCEPT !.hasInput = FALSE]]
  /\ links = [n \in NodeIds |-> 0]
  /\ stack = <<>>
  /\ act = [k |-> "init", n |-> 0]
  /\ obs = NoObs
  /\ ops = 0
  /\ gw = NewGateway

EventArrives == \E msg \in EventMessages : ops < MaxEvents /\ HandleEvent(msg)

NextEvent ==
  \/ EventArrives
  \/ HostNotifyInput
  \/ HostNotifyLoras
  \/ InputReturn
  \/ EventCall
  \/ EventReturn

SpecEvent == InitEvent /\ [][NextEvent]_vars

\* The event is addressed to one node id, and that id is of no node, of a
\* node of another class, or of a node without a text widget.
C20_Undeliverable(msg) ==
  LET id == msg.node_id.v IN
  /\ id # -1
  /\ \/ id \notin NodeIds
     \/ node[id].kind \notin {LoaderClass, StackerClass, WanClass}
     \/ ~node[id].hasInput

\* What C20 asks of one step.
C20_Step ==
  (act'.k = "event" /\ C20_Undeliverable(obs'.msg)) =>
    /\ node' = node
    /\ stack' = <<>>
    /\ obs' = [NoObs EXCEPT !.msg = obs'.msg]

\* C20: an event that cannot be delivered does nothing.  The handling of an
\* event addressed to a node id that is of no node, of a node that is no
\* remote loader, stacker or WanVideo node, or of a node without a text
\* widget changes no node, calls no callback (no handler is left running, no
\* collaborator is called, no call is dropped) and is over in its one step.
C20_UndeliverableEvent == [][C20_Step]_vars

\* After an event that was delivered to a stacker, an event addressed to a
\* loader without text widget has been handled.
C20_Witness ==
  \E n, m \in NodeIds :
    /\ act = [k |-> "event", n |-> n]
    /\ node[n].kind = LoaderClass
    /\ ~node[n].hasInput
    /\ stack = <<>>
    /\ ops = 2
    /\ node[m].kind = StackerClass
    /\ IsSuffix(obs.msg.lora_code, node[m].text)
    /\ Len(node[m].loras) = 2

\* ---------------------------------------------------------------- C21
\* Dispatches and mode assignments in one run of the mode specification.
MaxSets == 2

\* Nodes of the three kinds, the loader fed by the stacker, all enabled,
\* each loaded with a list of its own.
ModeLists ==
  { <<Entry("x", 10, TRUE)>>,
    <<Entry("y", 8, TRUE), Entry("x", 10, FALSE)>> }

InitMode ==
  /\ \E l \in [NodeIds -> ModeLists] :
       node = [n \in NodeIds |-> LoadedNode(KindOf[n], 0, l[n])]
  /\ links = [n \in NodeIds |-> IF n = 1 THEN 2 ELSE 0]
  /\ stack = <<>>
  /\ act = [k |-> "init", n |-> 0]
  /\ obs = NoObs
  /\ ops = 0
  /\ gw = NewGateway

\* A node's mode is assigned: by the user between two callbacks, or by code
\* the host runs from a handler's write, while the handler's guards are set.
SetMode ==
  \E n \in NodeIds, m \in KindModes :
    /\ ops < MaxSets
    /\ ops' = ops + 1
    /\ act' = [k |-> "mode", n |-> n]
    /\ Commit(setMode(n, m, IF Idle THEN [Here EXCEPT !.obs = NoObs] ELSE Here))
    /\ UNCHANGED <<links, gw>>

ModeEditLoras == \E n \in NodeIds : ops < MaxSets /\ UserEditLoras(n)

ModeEditText == \E n \in NodeIds : ops < MaxSets /\ UserEditText(n)

NextMode ==
  \/ SetMode
  \/ ModeEditLoras
  \/ ModeEditText
  \/ \E n \in NodeIds : TimerFire(n)
  \/ HostNotifyLoras
  \/ HostNotifyInput
  \/ InputReturn
  \/ SyncReturn

SpecMode == InitMode /\ [][NextMode]_vars

\* The names the chain of loader n gives when its nodes are as in nd: the
\* active entries of the nodes upstream of n, n included, that nd has neither
\* disabled nor bypassed.
C21_Expected(nd, n) ==
  UNION { {nd[m].loras[i].name :
             i \in {j \in 1..Len(nd[m].loras) : nd[m].loras[j].active}} :
          m \in {r \in UpstreamClosure({n}) : nd[r].mode \notin {2, 4}} }

\* What C21 asks of one step.
C21_Step ==
  /\ act'.k = "mode" =>
       LET n == act'.n IN
       /\ obs'.assigned \in KindModes
       /\ node' = [node EXCEPT ![n].mode = obs'.assigned]
       /\ stack' = stack
       /\ node[n].kind = LoaderClass =>
            /\ obs'.tw = (IF stack = <<>> THEN 0 ELSE obs.tw) + 1
            /\ obs'.active = C21_Expected(node', n)
  /\ act'.k # "mode" =>
       \A n \in NodeIds : node'[n].mode = node[n].mode

\* C21: the loader's mode setter.  Every assignment to a loader's mode,
\* whether or not it changes the value and whether or not a guard of the
\* node is set, stores the value, hands the active names of the chain as it
\* is with the new mode to the trigger-word collaborator exactly once, and
\* changes nothing else of any node (text, list, guards, pending rewrite) nor
\* the running handlers; no other step changes a mode, so a read gives the
\* value last assigned.
C21_ModeSetter == [][C21_Step]_vars

\* While the loader's text callback stood at its write of the list, with
\* isUpdating set, the loader's mode was assigned the value it had: the
\* collaborator was told the names of the loader and of the stacker upstream.
C21_Witness ==
  /\ act = [k |-> "mode", n |-> 1]
  /\ stack # <<>>
  /\ Top.h = "input"
  /\ node[1].isUpdating
  /\ node[1].mode = 0
  /\ obs.assigned = 0
  /\ obs.tw = 1
  /\ node[2].loras = <<Entry("y", 8, TRUE), Entry("x", 10, FALSE)>>
  /\ node[1].loras = <<Entry("x", 8, TRUE)>>
  /\ obs.active = {"x", "y"}

====
